---- MODULE Spec2Model ----
(***************************************************************************)
(* A model of the ItiP smart-contract assistant: the character chunker     *)
(* (utils.py), the ingestion pipeline (ingestion.py), the answer and       *)
(* summary chains (rag_pipeline.py) and the request handlers (app.py).     *)
(*                                                                         *)
(* Strings are sequences of one-character strings.  The chunker's sizes    *)
(* are the source's 800 / 1200 / 200 scaled down to 2 / 3 / 1 so that      *)
(* texts of a few characters span several windows.                         *)
(***************************************************************************)
EXTENDS Integers, Sequences, FiniteSets, TLC

\* ---------------------------------------------------------------- bounds
MaxTextLen == 6

MaxBatch == 2

MaxDocs == 3

MaxUploads == 2

MaxTokens == 2
\* the most pieces a question handed to guard_unrelated is made of
MaxWords == 3
\* the most chunks a scan of char_chunk_text is followed for
MaxChunks == 6

\* ------------------------------------------------------- program constants
\* utils.py has 800, 1200 and 200: the same order (min < max, overlap < min)
\* at a size the texts of the model reach
CHUNK_MIN == 2
CHUNK_MAX == 3
CHUNK_OVERLAP == 1

\* ------------------------------------------------------------- characters
Alphabet == {"a", ".", " ", "\n"}

IsSpace(c) == c \in {" ", "\n", "\t"}

IsTerminator(c) == c \in {".", "!", "?"}

Min(a, b) == IF a < b THEN a ELSE b

Max(a, b) == IF a > b THEN a ELSE b

AllSpace(s) == \A i \in 1..Len(s) : IsSpace(s[i])

\* str.strip(): drop the leading and the trailing whitespace
strip(s) ==
    IF AllSpace(s) THEN <<>>
    ELSE LET first == CHOOSE i \in 1..Len(s) :
                          /\ ~IsSpace(s[i])
                          /\ \A j \in 1..(i - 1) : IsSpace(s[j])
             last  == CHOOSE i \in 1..Len(s) :
                          /\ ~IsSpace(s[i])
                          /\ \A j \in (i + 1)..Len(s) : IsSpace(s[j])
         IN  SubSeq(s, first, last)

\* ------------------------------------------------ utils.py: char_chunk_text
\* The ways r"[.!?]\s+[^\S\n]*$" matches in w from the terminator at i:
\* \s+ takes w[i+1..k], [^\S\n]* takes w[k+1..j], and $ holds at j (the end of
\* w, or just before a newline that ends w).
SentenceBreakEnds(w, i) ==
    { kj \in ((i + 1)..Len(w)) \X ((i + 1)..Len(w)) :
        /\ kj[1] <= kj[2]
        /\ \A p \in (i + 1)..kj[1] : IsSpace(w[p])
        /\ \A p \in (kj[1] + 1)..kj[2] : IsSpace(w[p]) /\ w[p] # "\n"
        /\ \/ kj[2] = Len(w)
           \/ kj[2] = Len(w) - 1 /\ w[Len(w)] = "\n" }

\* re.search: the leftmost terminator with a match, both quantifiers greedy.
\* The value is m.end(), or 0 when there is no match (m is None).
SentenceBreakEnd(w) ==
    LET starts == { i \in 1..Len(w) :
                      IsTerminator(w[i]) /\ SentenceBreakEnds(w, i) # {} }
    IN  IF starts = {} THEN 0
        ELSE LET i  == CHOOSE x \in starts : \A y \in starts : x <= y
                 ms == SentenceBreakEnds(w, i)
                 k  == CHOOSE x \in { kj[1] : kj \in ms } :
                           \A kj \in ms : kj[1] <= x
                 j  == CHOOSE x \in { kj[2] : kj \in { m \in ms : m[1] = k } } :
                           \A kj \in { m \in ms : m[1] = k } : kj[2] <= x
             IN  j

\* end = min(start + chunk_max, n)
WindowEnd(t, s) == Min(s + CHUNK_MAX, Len(t))

\* The cut a mutated chunker makes: one character past the window.
CutEndLong(t, s) == Min(s + CHUNK_MAX + 1, Len(t))

\* One iteration's cut: the end of the sentence break when the window has one
\* and is at least chunk_min long, the end of the window otherwise.
CutEnd(t, s) ==
    LET e == WindowEnd(t, s)
        w == SubSeq(t, s + 1, e)
        m == SentenceBreakEnd(w)
    IN  IF m # 0 /\ Len(w) >= CHUNK_MIN THEN s + m ELSE e

\* A mutated advance: the next window starts where the last one ended.
NextStartNoOverlap(e) == e

\* start = max(0, end - overlap)
NextStart(e) == Max(0, e - CHUNK_OVERLAP)

\* A mutated return: the empty chunks are dropped but nothing is trimmed.
ChunkOutputUntrimmed(t, ws) ==
    LET raw == [i \in 1..Len(ws) |-> SubSeq(t, ws[i][1] + 1, ws[i][2])]
    IN  SelectSeq(raw, LAMBDA c : strip(c) # <<>>)

\* return [c.strip() for c in chunks if c.strip()]
ChunkOutput(t, ws) ==
    LET raw  == [i \in 1..Len(ws) |-> SubSeq(t, ws[i][1] + 1, ws[i][2])]
        kept == SelectSeq(raw, LAMBDA c : strip(c) # <<>>)
    IN  [i \in 1..Len(kept) |-> strip(kept[i])]

\* The windows <<start, end>> the while loop cuts from the trimmed text t,
\* from position s on.
RECURSIVE ChunkWindows(_, _)
ChunkWindows(t, s) ==
    IF s >= Len(t) THEN <<>>
    ELSE LET e == CutEnd(t, s)
         IN  IF e >= Len(t) THEN << <<s, e>> >>
             ELSE << <<s, e>> >> \o ChunkWindows(t, NextStart(e))

char_chunk_text(txt) ==
    LET t == strip(txt) IN ChunkOutput(t, ChunkWindows(t, 0))

\* ------------------------------------------------------------------ state
VARIABLES
    rawText,    \* char_chunk_text: the argument
    text,       \* char_chunk_text: text after text.strip()
    start,      \* char_chunk_text: start
    windows,    \* char_chunk_text: the <<start, end>> of each appended chunk
    result,     \* char_chunk_text: the returned list
    cpc,        \* char_chunk_text: "call", "loop", "ret", "done"
    overlap,    \* char_chunk_text: the overlap argument
    PyPDF2,     \* ingestion.py: the PyPDF2 import succeeded
    docx,       \* ingestion.py: the python-docx import succeeded
    batch,      \* the files handed to index_files / ingest
    uploads,    \* the names in ./uploads
    vs,         \* the chunks in the persistent "contracts" collection
    status,     \* what index_files returned last
    ingested,   \* what ingest returned or raised last
    ipc,        \* the ingestion call: "call", "done", or "idle"
    qa_chain,   \* app.py: the global qa_chain
    summary_chain,  \* app.py: the global summary_chain
    indexings,  \* the number of index_files calls that changed the index
    apc,        \* the request in progress and where it stands
    req,        \* the current (or last) request: what it did and yielded
    retrievable,    \* a chain run on its own: what the retriever returns
    asked,      \* a chain run on its own: the question
    composed,   \* a chain run on its own: what the run did
    kpc,        \* a chain run on its own: "call", "done", or "idle"
    guardQuestion,  \* guard_unrelated: the argument
    blocked,    \* guard_unrelated: the returned value
    gpc         \* guard_unrelated: "call", "done", or "idle"

chunkVars == <<rawText, text, start, windows, result, cpc, overlap>>

ingestVars == <<PyPDF2, docx, batch, uploads, vs, status, ingested, ipc>>

appVars == <<qa_chain, summary_chain, indexings, apc, req>>

chainVars == <<retrievable, asked, composed, kpc>>

guardVars == <<guardQuestion, blocked, gpc>>

vars == <<rawText, text, start, windows, result, cpc, overlap,
          PyPDF2, docx, batch, uploads, vs, status, ingested, ipc,
          qa_chain, summary_chain, indexings, apc, req,
          retrievable, asked, composed, kpc,
          guardQuestion, blocked, gpc>>

ChunkIdle ==
    /\ rawText = <<>>
    /\ text = <<>>
    /\ start = 0
    /\ windows = <<>>
    /\ result = <<>>
    /\ cpc = "idle"
    /\ overlap = CHUNK_OVERLAP

IngestIdle ==
    /\ PyPDF2 = TRUE
    /\ docx = TRUE
    /\ batch = <<>>
    /\ uploads = {}
    /\ vs = <<>>
    /\ status = [kind |-> "none"]
    /\ ingested = [kind |-> "none"]
    /\ ipc = "idle"

\* qa_chain / summary_chain: None, or a handle built when the index had
\* changed `built` times
NoChain == [set |-> FALSE, built |-> 0]

Chain(n) == [set |-> TRUE, built |-> n]

NoPrompt == [context |-> <<>>, citations |-> <<>>, question |-> <<>>]

NoRequest ==
    [kind |-> "none", q |-> <<>>, branch |-> "none", ensured |-> FALSE,
     retrievals |-> 0, ndocs |-> 0, llm_calls |-> 0, handle |-> NoChain,
     content |-> <<>>, yields |-> <<>>, escaped |-> FALSE, prompt |-> NoPrompt]

AppIdle ==
    /\ qa_chain = NoChain
    /\ summary_chain = NoChain
    /\ indexings = 0
    /\ apc = "off"
    /\ req = NoRequest

ChainIdle ==
    /\ retrievable = <<>>
    /\ asked = <<>>
    /\ composed = [chain |-> "none"]
    /\ kpc = "idle"

GuardIdle ==
    /\ guardQuestion = <<>>
    /\ blocked = FALSE
    /\ gpc = "idle"

\* ------------------------------------------------------------ ingestion.py
\* an absent page (Python's None; the pages of a PDF count from 1)
NoPage == 0

\* an absent title (a title is kept only when it is not empty)
NoTitle == <<>>

\* str(n) for n >= 0
RECURSIVE Decimal(_)
Decimal(n) ==
    LET digit == <<"0", "1", "2", "3", "4", "5", "6", "7", "8", "9">>[(n % 10) + 1]
    IN  IF n < 10 THEN <<digit>> ELSE Append(Decimal(n \div 10), digit)

\* a file name: root, then "_<i>" when i > 0, then the extension
NameText(root, i, ext) ==
    IF i = 0 THEN <<root, ext>> ELSE <<root, "_">> \o Decimal(i) \o <<ext>>

SUPPORTED_EXTENSIONS == {".pdf", ".docx", ".txt"}

\* str.lower() on the extensions the model's files carry
lower(ext) ==
    CASE ext = ".PDF" -> ".pdf"
      [] ext = ".TXT" -> ".txt"
      [] OTHER -> ext

\* The uploaded files of the model.  units: the text of a .txt file, the
\* pages of a .pdf file, the paragraphs of a .docx file.  The names hold
\* only characters that sanitize_filename keeps.
FileTxtLong ==
    [root |-> "a", ext |-> ".txt",
     units |-> << <<"a", ".", " ", "a", " ", "a">> >>]

FileTxtShort ==
    [root |-> "b", ext |-> ".TXT", units |-> << <<" ", "a">> >>]

FilePdf ==
    [root |-> "c", ext |-> ".pdf",
     units |-> << <<"a", " ", "a">>, <<>>, <<"a", ".">> >>]

FileDocx ==
    [root |-> "d", ext |-> ".docx", units |-> << <<"a">>, <<"a", ".">> >>]

FileExe == [root |-> "e", ext |-> ".exe", units |-> <<>>]

Files == {FileTxtLong, FileTxtShort, FilePdf, FileDocx, FileExe}

Returned(v) == [exc |-> "none", value |-> v, msg |-> <<>>]

Raised(e, m) == [exc |-> e, value |-> <<>>, msg |-> m]

\* a path: the file under the name it is stored as
PathOf(f, n) ==
    [name |-> NameText(f.root, n, f.ext), ext |-> f.ext, units |-> f.units]

parse_txt(path) ==
    Returned(<< [text |-> path.units[1], source |-> path.name,
                 page |-> NoPage, title |-> NoTitle] >>)

parse_pdf(path) ==
    IF ~PyPDF2
    THEN Raised("RuntimeError", <<"PyPDF2 not installed. Install it to parse PDFs.">>)
    ELSE Returned([i \in 1..Len(path.units) |->
                      [text |-> path.units[i], source |-> path.name,
                       page |-> i, title |-> NoTitle]])

RECURSIVE JoinParagraphs(_, _)
JoinParagraphs(ps, i) ==
    IF i > Len(ps) THEN <<>>
    ELSE ps[i] \o <<"\n">> \o JoinParagraphs(ps, i + 1)

parse_docx(path) ==
    IF ~docx
    THEN Raised("RuntimeError", <<"python-docx not installed. Install it to parse DOCX.">>)
    ELSE LET first == IF path.units # <<>> THEN strip(path.units[1]) ELSE <<>>
         IN  Returned(<< [text |-> JoinParagraphs(path.units, 1),
                          source |-> path.name, page |-> NoPage,
                          title |-> IF first # <<>> THEN first ELSE NoTitle] >>)

parse_file(path) ==
    LET ext == lower(path.ext)
    IN  IF ext = ".pdf" THEN parse_pdf(path)
        ELSE IF ext = ".docx" THEN parse_docx(path)
        ELSE IF ext = ".txt" THEN parse_txt(path)
        ELSE Raised("ValueError", <<"Unsupported file type: ", ext>>)

\* utils.py: build_chunk_metadata merged into the record's metadata
build_chunk_metadata(rec, cid) ==
    [source |-> rec.source, page |-> rec.page, title |-> rec.title,
     chunk_id |-> <<"chunk_">> \o Decimal(cid)]

\* the chunks of the records from the k-th on, the counter standing at cid
RECURSIVE ChunkRecordsFrom(_, _, _)
ChunkRecordsFrom(records, k, cid) ==
    IF k > Len(records) THEN <<>>
    ELSE LET chs == char_chunk_text(records[k].text)
         IN  [i \in 1..Len(chs) |->
                 [text |-> chs[i],
                  metadata |-> build_chunk_metadata(records[k], cid + i - 1)]]
             \o ChunkRecordsFrom(records, k + 1, cid + Len(chs))

\* cid = 1, then one id per chunk of the records handed in
chunk_records(records) == ChunkRecordsFrom(records, 1, 1)

\* a mutated loop: a file that fails to parse is skipped
RECURSIVE IngestSkippingFrom(_, _, _)
IngestSkippingFrom(paths, k, all_chunks) ==
    IF k > Len(paths) THEN Returned(all_chunks)
    ELSE LET r == parse_file(paths[k])
         IN  IF r.exc # "none" THEN IngestSkippingFrom(paths, k + 1, all_chunks)
             ELSE IngestSkippingFrom(paths, k + 1,
                                     all_chunks \o chunk_records(r.value))

ingest_skipping(paths) == IngestSkippingFrom(paths, 1, <<>>)

\* the loop of ingest from the k-th path on
RECURSIVE IngestFrom(_, _, _)
IngestFrom(paths, k, all_chunks) ==
    IF k > Len(paths) THEN Returned(all_chunks)
    ELSE LET r == parse_file(paths[k])
         IN  IF r.exc # "none" THEN r
             ELSE IngestFrom(paths, k + 1, all_chunks \o chunk_records(r.value))

ingest(paths) == IngestFrom(paths, 1, <<>>)

\* utils.py: the suffix of the first free name for root + ext in dir
make_unique_path(dir, root, ext) ==
    IF NameText(root, 0, ext) \notin dir THEN 0
    ELSE CHOOSE i \in 1..(Cardinality(dir) + 1) :
             /\ NameText(root, i, ext) \notin dir
             /\ \A j \in 1..(i - 1) : NameText(root, j, ext) \in dir

\* app.py: save_uploads from the k-th file on: the saved paths and the
\* directory afterwards
RECURSIVE SaveUploadsFrom(_, _, _, _)
SaveUploadsFrom(files, k, dir, saved_paths) ==
    IF k > Len(files) THEN [paths |-> saved_paths, dir |-> dir]
    ELSE IF lower(files[k].ext) \notin SUPPORTED_EXTENSIONS
         THEN SaveUploadsFrom(files, k + 1, dir, saved_paths)
         ELSE LET dest == PathOf(files[k],
                                 make_unique_path(dir, files[k].root, files[k].ext))
              IN  SaveUploadsFrom(files, k + 1, dir \cup {dest.name},
                                  Append(saved_paths, dest))

save_uploads(files, dir) == SaveUploadsFrom(files, 1, dir, <<>>)

\* --------------------------------------------------------- rag_pipeline.py
\* search_kwargs={"k": 20}
RetrieverK == 20

\* a chunk of the collection as a retrieved Document
AsDocument(c) == [page_content |-> c.text, metadata |-> c.metadata]

\* retriever.invoke: the k nearest chunks of the collection (all of them
\* while the collection holds at most k)
Retrieve(store) ==
    [i \in 1..Min(RetrieverK, Len(store)) |-> AsDocument(store[i])]

\* LongContextReorder.transform_documents: the list is reversed, then its
\* items go alternately to the front and to the back of the result
RECURSIVE ReorderFrom(_, _, _)
ReorderFrom(reversed, i, acc) ==
    IF i > Len(reversed) THEN acc
    ELSE ReorderFrom(reversed, i + 1,
                     IF (i - 1) % 2 = 1 THEN Append(acc, reversed[i])
                     ELSE <<reversed[i]>> \o acc)

transform_documents(docs) ==
    ReorderFrom([i \in 1..Len(docs) |-> docs[Len(docs) + 1 - i]], 1, <<>>)

\* "\n\n".join(d.page_content for d in docs)
RECURSIVE FormatDocsFrom(_, _)
FormatDocsFrom(docs, i) ==
    IF i > Len(docs) THEN <<>>
    ELSE IF i = Len(docs) THEN docs[i].page_content
    ELSE docs[i].page_content \o <<"\n", "\n">> \o FormatDocsFrom(docs, i + 1)

format_docs(docs) == FormatDocsFrom(docs, 1)

\* dict.get(key, default)
MetaGet(m, key, default) == IF key \in DOMAIN m THEN m[key] ELSE default

\* utils.py: format_citation
format_citation(meta) ==
    LET source   == MetaGet(meta, "source", <<"unknown">>)
        page     == MetaGet(meta, "page", NoPage)
        chunk_id == MetaGet(meta, "chunk_id", <<"chunk_?">>)
    IN  IF page # NoPage
        THEN <<"[">> \o source \o <<" p.">> \o Decimal(page) \o <<" ">>
                 \o chunk_id \o <<"]">>
        ELSE <<"[">> \o source \o <<" ">> \o chunk_id \o <<"]">>

\* the tag of one document's metadata, as _citations_from_docs formats it
CitationTag(m) ==
    LET source   == MetaGet(m, "source", <<"unknown">>)
        page     == MetaGet(m, "page", NoPage)
        chunk_id == MetaGet(m, "chunk_id", <<"chunk_?">>)
    IN  IF page # NoPage
        THEN <<"[">> \o source \o <<" p.">> \o Decimal(page) \o <<" ">>
                 \o chunk_id \o <<"]">>
        ELSE <<"[">> \o source \o <<" ">> \o chunk_id \o <<"]">>

\* the dedupe loop: the tags of cites from the i-th on that are not in uniq
RECURSIVE DedupeFrom(_, _, _)
DedupeFrom(cites, i, uniq) ==
    IF i > Len(cites) THEN uniq
    ELSE DedupeFrom(cites, i + 1,
                    IF \E k \in 1..Len(uniq) : uniq[k] = cites[i]
                    THEN uniq ELSE Append(uniq, cites[i]))

\* " ".join(uniq)
RECURSIVE JoinSpace(_, _)
JoinSpace(tags, i) ==
    IF i > Len(tags) THEN <<>>
    ELSE IF i = Len(tags) THEN tags[i]
    ELSE tags[i] \o <<" ">> \o JoinSpace(tags, i + 1)

\* a mutated join_citations: every tag is appended, seen or not
RECURSIVE JoinCitationsRepeating(_, _, _)
JoinCitationsRepeating(metadatas, i, uniq) ==
    IF i > Len(metadatas) THEN uniq
    ELSE JoinCitationsRepeating(metadatas, i + 1,
                                Append(uniq, format_citation(metadatas[i])))

join_citations_repeating(metadatas) ==
    JoinSpace(JoinCitationsRepeating(metadatas, 1, <<>>), 1)

\* utils.py: the loop of join_citations from the i-th metadata on
RECURSIVE JoinCitationsFrom(_, _, _)
JoinCitationsFrom(metadatas, i, uniq) ==
    IF i > Len(metadatas) THEN uniq
    ELSE LET c == format_citation(metadatas[i])
         IN  JoinCitationsFrom(metadatas, i + 1,
                               IF \E k \in 1..Len(uniq) : uniq[k] = c
                               THEN uniq ELSE Append(uniq, c))

join_citations(metadatas) == JoinSpace(JoinCitationsFrom(metadatas, 1, <<>>), 1)

citations_from_docs(docs) ==
    JoinSpace(DedupeFrom([i \in 1..Len(docs) |-> CitationTag(docs[i].metadata)],
                         1, <<>>), 1)

\* build_qa_chain: prepare_docs (no retrieval for an empty question)
prepare_docs(q, retrieved) ==
    IF q = <<>> THEN <<>> ELSE transform_documents(retrieved)

\* what one run of the answer chain does, the retriever returning
\* `retrieved` when asked: the documents used, the retriever calls, the
\* prompt inputs, the calls of the language model
QaChainRun(q, retrieved) ==
    LET docs == prepare_docs(q, retrieved)
    IN  [docs |-> docs,
         retrievals |-> IF q = <<>> THEN 0 ELSE 1,
         prompt |-> [context |-> format_docs(docs), question |-> q,
                     citations |-> citations_from_docs(docs)],
         llm_calls |-> 1]

SummarizeTheDocuments ==
    <<"S", "u", "m", "m", "a", "r", "i", "z", "e", " ", "t", "h", "e", " ",
      "d", "o", "c", "u", "m", "e", "n", "t", "s", ".">>

\* a mutated guard: the inputs are emptied only when both are empty
grounded_or_idk_both(payload) ==
    IF strip(payload.context) = <<>> /\ strip(payload.citations) = <<>>
    THEN [context |-> <<>>, citations |-> <<>>, question |-> SummarizeTheDocuments]
    ELSE payload

\* build_summary_chain: grounded_or_idk
grounded_or_idk(payload) ==
    IF strip(payload.context) = <<>> \/ strip(payload.citations) = <<>>
    THEN [context |-> <<>>, citations |-> <<>>, question |-> SummarizeTheDocuments]
    ELSE payload

\* what one run of the summary chain does
SummaryChainRun(retrieved) ==
    LET docs == transform_documents(retrieved)
    IN  [docs |-> docs,
         retrievals |-> 1,
         prompt |-> grounded_or_idk(
                        [context |-> IF docs # <<>> THEN format_docs(docs) ELSE <<>>,
                         citations |-> IF docs # <<>> THEN citations_from_docs(docs)
                                       ELSE <<>>]),
         llm_calls |-> 1]

\* ------------------------------------------------- strings of questions
UpperCase ==
    <<"A", "B", "C", "D", "E", "F", "G", "H", "I", "J", "K", "L", "M",
      "N", "O", "P", "Q", "R", "S", "T", "U", "V", "W", "X", "Y", "Z">>

LowerCase ==
    <<"a", "b", "c", "d", "e", "f", "g", "h", "i", "j", "k", "l", "m",
      "n", "o", "p", "q", "r", "s", "t", "u", "v", "w", "x", "y", "z">>

Digits == {"0", "1", "2", "3", "4", "5", "6", "7", "8", "9"}

\* str.lower()
LowerChar(c) ==
    IF \E i \in 1..26 : UpperCase[i] = c
    THEN LowerCase[CHOOSE i \in 1..26 : UpperCase[i] = c]
    ELSE c

lower_str(s) == [i \in 1..Len(s) |-> LowerChar(s[i])]

\* sub occurs in s at position i (1-based)
OccursAt(sub, s, i) ==
    /\ i >= 1
    /\ i + Len(sub) - 1 <= Len(s)
    /\ \A k \in 1..Len(sub) : s[i + k - 1] = sub[k]

\* Python's `sub in s`
Contains(sub, s) == \E i \in 1..(Len(s) + 1) : OccursAt(sub, s, i)

\* `any(p in s for p in phrases)`
AnyIn(phrases, s) == \E k \in 1..Len(phrases) : Contains(phrases[k], s)

\* regex \w
IsWordChar(c) ==
    \/ \E i \in 1..26 : c = LowerCase[i] \/ c = UpperCase[i]
    \/ c \in Digits
    \/ c = "_"

\* regex \b at the gap after position p of s (p = 0: before the first)
WordBoundary(s, p) ==
    LET before == p >= 1 /\ IsWordChar(s[p])
        after  == p < Len(s) /\ IsWordChar(s[p + 1])
    IN  before # after

\* re.search(r'\b(w1|w2|...)\b', s)
SearchWords(ws, s) ==
    \E k \in 1..Len(ws), i \in 1..Len(s) :
        /\ OccursAt(ws[k], s, i)
        /\ WordBoundary(s, i - 1)
        /\ WordBoundary(s, i + Len(ws[k]) - 1)

\* re.search(r'\bfirst.*second\b', s): `.` matches no newline
SearchPair(first, second, s) ==
    \E i, j \in 1..Len(s) :
        /\ OccursAt(first, s, i)
        /\ WordBoundary(s, i - 1)
        /\ j >= i + Len(first)
        /\ OccursAt(second, s, j)
        /\ WordBoundary(s, j + Len(second) - 1)
        /\ \A p \in (i + Len(first))..(j - 1) : s[p] # "\n"

\* ------------------------------------------------ utils.py: guard_unrelated
GuardGreetings ==
    << <<"h", "i">>,
       <<"h", "e", "l", "l", "o">>,
       <<"h", "e", "y">>,
       <<"g", "o", "o", "d", " ", "m", "o", "r", "n", "i", "n", "g">>,
       <<"g", "o", "o", "d", " ", "a", "f", "t", "e", "r", "n", "o", "o", "n">>,
       <<"g", "o", "o", "d", " ", "e", "v", "e", "n", "i", "n", "g">>,
       <<"h", "o", "w", " ", "a", "r", "e", " ", "y", "o", "u">>,
       <<"t", "h", "a", "n", "k", "s">>,
       <<"t", "h", "a", "n", "k", " ", "y", "o", "u">> >>

MetaPhrases ==
    << <<"w", "h", "a", "t", " ", "c", "a", "n", " ", "y", "o", "u", " ", "d", "o">>,
       <<"w", "h", "a", "t", " ", "a", "r", "e", " ", "y", "o", "u">>,
       <<"w", "h", "o", " ", "a", "r", "e", " ", "y", "o", "u">>,
       <<"h", "e", "l", "p">> >>

UnrelatedWords1 ==
    << <<"w", "e", "a", "t", "h", "e", "r">>,
       <<"n", "e", "w", "s">>,
       <<"s", "p", "o", "r", "t", "s">>,
       <<"m", "o", "v", "i", "e">>,
       <<"m", "o", "v", "i", "e", "s">>,
       <<"m", "u", "s", "i", "c">>,
       <<"s", "o", "n", "g">>,
       <<"s", "o", "n", "g", "s">> >>

UnrelatedWords2 ==
    << <<"r", "e", "c", "i", "p", "e">>,
       <<"c", "o", "o", "k", "i", "n", "g">>,
       <<"f", "o", "o", "d">> >>

UnrelatedWords3 ==
    << <<"t", "r", "a", "v", "e", "l">>,
       <<"v", "a", "c", "a", "t", "i", "o", "n">>,
       <<"h", "o", "t", "e", "l">> >>

\* any(re.search(p, q) for p in unrelated_patterns)
MatchesUnrelated(q) ==
    \/ SearchWords(UnrelatedWords1, q)
    \/ SearchWords(UnrelatedWords2, q)
    \/ SearchWords(UnrelatedWords3, q)
    \/ SearchPair(<<"w", "r", "i", "t", "e">>, <<"s", "t", "o", "r", "y">>, q)
    \/ SearchPair(<<"p", "l", "a", "y">>, <<"g", "a", "m", "e">>, q)
    \/ SearchPair(<<"t", "e", "l", "l">>, <<"j", "o", "k", "e">>, q)

\* a mutated guard_unrelated: the two allow-list checks are missing
guard_unrelated_blocking(question) ==
    MatchesUnrelated(strip(lower_str(question)))

guard_unrelated(question) ==
    LET q == strip(lower_str(question))
    IN  IF AnyIn(GuardGreetings, q) THEN FALSE
        ELSE IF AnyIn(MetaPhrases, q) THEN FALSE
        ELSE MatchesUnrelated(q)

\* ------------------------------------- app.py: stream_answer's short cuts
AnswerGreetings ==
    << <<"h", "i">>,
       <<"h", "e", "l", "l", "o">>,
       <<"h", "e", "y">>,
       <<"g", "o", "o", "d", " ", "m", "o", "r", "n", "i", "n", "g">>,
       <<"g", "o", "o", "d", " ", "a", "f", "t", "e", "r", "n", "o", "o", "n">>,
       <<"g", "o", "o", "d", " ", "e", "v", "e", "n", "i", "n", "g">> >>

HowAreYou ==
    << <<"h", "o", "w", " ", "a", "r", "e", " ", "y", "o", "u">> >>

ThanksPhrases ==
    << <<"t", "h", "a", "n", "k", "s">>,
       <<"t", "h", "a", "n", "k", " ", "y", "o", "u">> >>

\* a mutated stream_answer: the off-topic check is missing
ClassifyUnguarded(question) ==
    LET q_lower == strip(lower_str(question))
    IN  IF AnyIn(AnswerGreetings, q_lower) THEN "greeting"
        ELSE IF AnyIn(HowAreYou, q_lower) THEN "how_are_you"
        ELSE IF AnyIn(MetaPhrases, q_lower) THEN "meta"
        ELSE IF AnyIn(ThanksPhrases, q_lower) THEN "thanks"
        ELSE "document"

\* the branch stream_answer takes before it touches the pipelines
Classify(question) ==
    LET q_lower == strip(lower_str(question))
    IN  IF AnyIn(AnswerGreetings, q_lower) THEN "greeting"
        ELSE IF AnyIn(HowAreYou, q_lower) THEN "how_are_you"
        ELSE IF AnyIn(MetaPhrases, q_lower) THEN "meta"
        ELSE IF AnyIn(ThanksPhrases, q_lower) THEN "thanks"
        ELSE IF guard_unrelated(question) THEN "off_topic"
        ELSE "document"

\* the questions of the model
Questions ==
    << <<"H", "i">>,
       <<"t", "h", "a", "n", "k", " ", "y", "o", "u">>,
       <<"h", "o", "w", " ", "a", "r", "e", " ", "y", "o", "u">>,
       <<"h", "e", "l", "p">>,
       <<"t", "e", "l", "l", " ", "a", " ", "j", "o", "k", "e">>,
       <<"h", "i", ",", " ", "w", "e", "a", "t", "h", "e", "r">>,
       <<"t", "h", "i", "s", " ", "c", "l", "a", "u", "s", "e", "?">>,
       <<"g", "o", "v", "e", "r", "n", "i", "n", "g", " ", "l", "a", "w">>,
       <<>>,
       <<"M", "u", "s", "i", "c", "a", "l", " ", "n", "e", "w", "s">> >>

\* ------------------------------------------------- the chunker: actions
RECURSIVE Texts(_)
Texts(n) ==
    IF n = 0 THEN {<<>>}
    ELSE Texts(n - 1) \cup
         { Append(s, c) : s \in { x \in Texts(n - 1) : Len(x) = n - 1 },
                          c \in Alphabet }

ChunkInit ==
    /\ rawText \in Texts(MaxTextLen)
    /\ text = <<>>
    /\ start = 0
    /\ windows = <<>>
    /\ result = <<>>
    /\ cpc = "call"
    /\ overlap = CHUNK_OVERLAP
    /\ IngestIdle
    /\ AppIdle
    /\ ChainIdle
    /\ GuardIdle

\* text = text.strip(); chunks = []; start = 0; n = len(text)
ChunkCall ==
    /\ cpc = "call"
    /\ text' = strip(rawText)
    /\ start' = 0
    /\ windows' = <<>>
    /\ cpc' = "loop"
    /\ UNCHANGED <<rawText, result, overlap>>
    /\ UNCHANGED <<ingestVars, appVars, chainVars, guardVars>>

\* one iteration of `while start < n`
ChunkStep ==
    /\ cpc = "loop"
    /\ start < Len(text)
    /\ LET e == CutEnd(text, start)
       IN  /\ windows' = Append(windows, <<start, e>>)
           /\ IF e >= Len(text)
              THEN cpc' = "ret" /\ start' = start
              ELSE cpc' = "loop" /\ start' = NextStart(e)
    /\ UNCHANGED <<rawText, text, result, overlap>>
    /\ UNCHANGED <<ingestVars, appVars, chainVars, guardVars>>

\* the loop condition fails (only an empty text gets here: the loop breaks
\* at the end of the text otherwise)
ChunkExit ==
    /\ cpc = "loop"
    /\ start >= Len(text)
    /\ cpc' = "ret"
    /\ UNCHANGED <<rawText, text, start, windows, result, overlap>>
    /\ UNCHANGED <<ingestVars, appVars, chainVars, guardVars>>

ChunkReturn ==
    /\ cpc = "ret"
    /\ result' = ChunkOutput(text, windows)
    /\ cpc' = "done"
    /\ UNCHANGED <<rawText, text, start, windows, overlap>>
    /\ UNCHANGED <<ingestVars, appVars, chainVars, guardVars>>

ChunkNext == ChunkCall \/ ChunkStep \/ ChunkExit \/ ChunkReturn

SpecChunk == ChunkInit /\ [][ChunkNext]_vars

\* --------------------------------------------------- claims on the chunker
WindowText(i) == SubSeq(text, windows[i][1] + 1, windows[i][2])

\* C9: every chunk char_chunk_text returns is non-empty, has no leading or
\* trailing whitespace and is at most chunk_max long; every chunk other than
\* the last is at least chunk_min long or was cut at the chunk_max boundary.
C9_ChunkBounds ==
    cpc = "done" =>
        /\ \A i \in 1..Len(result) :
              /\ result[i] # <<>>
              /\ ~IsSpace(result[i][1])
              /\ ~IsSpace(result[i][Len(result[i])])
              /\ Len(result[i]) <= CHUNK_MAX
        /\ Len(result) = Cardinality({ i \in 1..Len(windows) : ~AllSpace(WindowText(i)) })
        /\ windows # <<>> => result[Len(result)] = strip(WindowText(Len(windows)))
        /\ \A i \in 1..(Len(windows) - 1) :
              ~AllSpace(WindowText(i)) =>
                  \/ Len(strip(WindowText(i))) >= CHUNK_MIN
                  \/ windows[i][2] - windows[i][1] = CHUNK_MAX

\* a text of three chunks, one of them (not the last) shorter than chunk_min
C9_Witness ==
    /\ cpc = "done"
    /\ Len(result) >= 3
    /\ \E i \in 1..(Len(result) - 1) : Len(result[i]) < CHUNK_MIN

\* C10: the windows start at 0, each next one starts overlap characters
\* before the end of the one before, the last ends at the end of the text;
\* every position lies in a window, adjacent windows share exactly overlap
\* characters, and every non-whitespace character is in a returned chunk.
C10_NoCharacterLoss ==
    /\ windows # <<>> => windows[1][1] = 0
    /\ \A i \in 1..(Len(windows) - 1) :
          /\ windows[i + 1][1] = Max(0, windows[i][2] - CHUNK_OVERLAP)
          /\ Min(windows[i][2], windows[i + 1][2])
                 - Max(windows[i][1], windows[i + 1][1]) = CHUNK_OVERLAP
    /\ cpc \in {"ret", "done"} =>
          /\ text # <<>> => windows # <<>> /\ windows[Len(windows)][2] = Len(text)
          /\ \A p \in 1..Len(text) :
                \E i \in 1..Len(windows) : windows[i][1] < p /\ p <= windows[i][2]
    /\ cpc = "done" =>
          \A p \in 1..Len(text) :
              ~IsSpace(text[p]) =>
                  \E i \in 1..Len(windows), j \in 1..Len(result) :
                      /\ windows[i][1] < p /\ p <= windows[i][2]
                      /\ result[j] = strip(WindowText(i))

\* a text of three windows, one of them whitespace only and dropped
C10_Witness ==
    /\ cpc = "done"
    /\ Len(windows) >= 3
    /\ Len(result) < Len(windows)

\* the sentence boundaries of the window w: the ends of the whitespace runs
\* that follow a terminator
SentenceBoundaries(w) ==
    { b \in 2..Len(w) :
        /\ b = Len(w) \/ ~IsSpace(w[b + 1])
        /\ \E p \in 1..(b - 1) :
              /\ IsTerminator(w[p])
              /\ \A x \in (p + 1)..b : IsSpace(w[x]) }

\* C15: at each step, when the window of up to chunk_max characters has a
\* sentence boundary (a terminator followed by whitespace) at least chunk_min
\* characters after its start, the chunk is cut at the last such boundary,
\* and otherwise at the end of the window.
C15_CutAtLastSentenceBoundary ==
    \A i \in 1..Len(windows) :
        LET s  == windows[i][1]
            e  == WindowEnd(text, s)
            bs == { b \in SentenceBoundaries(SubSeq(text, s + 1, e)) :
                      b >= CHUNK_MIN }
        IN  windows[i][2] =
                IF bs # {} THEN s + (CHOOSE b \in bs : \A c \in bs : c <= b)
                ELSE e

\* ------------------------------- the chunker called with its own overlap
\* the texts of letters and blanks
PlainTexts(n) == { t \in Texts(n) : \A i \in 1..Len(t) : t[i] \in {"a", " "} }

\* the overlap arguments: none, the default, the greatest below chunk_max,
\* and chunk_max
Overlaps == {0, CHUNK_OVERLAP, CHUNK_MAX - 1, CHUNK_MAX}

ChunkArgsInit ==
    /\ rawText \in PlainTexts(MaxTextLen)
    /\ overlap \in Overlaps
    /\ text = <<>>
    /\ start = 0
    /\ windows = <<>>
    /\ result = <<>>
    /\ cpc = "call"
    /\ IngestIdle
    /\ AppIdle
    /\ ChainIdle
    /\ GuardIdle

\* one iteration of `while start < n`, with the overlap of the call
ChunkScan ==
    /\ cpc = "loop"
    /\ start < Len(text)
    /\ Len(windows) < MaxChunks
    /\ LET e == CutEnd(text, start)
       IN  /\ windows' = Append(windows, <<start, e>>)
           /\ IF e >= Len(text)
              THEN cpc' = "ret" /\ start' = start
              ELSE cpc' = "loop" /\ start' = Max(0, e - overlap)
    /\ UNCHANGED <<rawText, text, result, overlap>>
    /\ UNCHANGED <<ingestVars, appVars, chainVars, guardVars>>

ChunkArgsNext == ChunkCall \/ ChunkScan \/ ChunkExit \/ ChunkReturn

SpecChunkArgs == ChunkArgsInit /\ [][ChunkArgsNext]_vars

\* C16: char_chunk_text terminates: in every scan it runs (a call with
\* overlap >= chunk_max is to be rejected before the scan), each iteration
\* that does not end the scan moves start strictly forward.
C16_ScanAdvances ==
    [][ (windows' # windows /\ cpc' = "loop") => start' > start ]_vars

\* ----------------------------------------------------- ingestion: actions
RECURSIVE Batches(_)
Batches(n) ==
    IF n = 0 THEN {<<>>}
    ELSE Batches(n - 1) \cup
         { Append(b, f) : b \in { x \in Batches(n - 1) : Len(x) = n - 1 },
                          f \in Files }

\* what build_vectorstore can do: return, or raise in get_embeddings
\* (RuntimeError) or in the Chroma client (another exception)
BuildOutcomes == {"ok", "RuntimeError", "Exception"}

\* app.py: index_files(uploaded_files)
IndexFilesDo(files) ==
    LET su    == save_uploads(files, uploads)
        paths == su.paths
    IN  /\ uploads' = su.dir
        /\ IF paths = <<>>
           THEN /\ status' = [kind |-> "none_supported",
                              text |-> <<"No supported files uploaded.">>]
                /\ vs' = vs
           ELSE LET r == ingest(paths)
                IN  IF r.exc = "RuntimeError"
                    THEN /\ status' = [kind |-> "error", text |-> r.msg]
                         /\ vs' = vs
                    ELSE IF r.exc # "none"
                    THEN /\ status' = [kind |-> "error",
                                       text |-> <<"Indexing error: ">> \o r.msg]
                         /\ vs' = vs
                    ELSE \E out \in BuildOutcomes :
                           CASE out = "ok" ->
                                  /\ vs' = vs \o r.value
                                  /\ status' = [kind |-> "indexed",
                                                text |-> <<"Indexed ">> \o Decimal(Len(r.value))
                                                           \o <<" chunks from ">>
                                                           \o Decimal(Len(paths))
                                                           \o <<" files.">>]
                             [] out = "RuntimeError" ->
                                  /\ vs' = vs
                                  /\ status' = [kind |-> "error",
                                                text |-> <<"langchain-nvidia-ai-endpoints is not installed. Please install it from requirements.txt.">>]
                             [] out = "Exception" ->
                                  /\ vs' = vs
                                  /\ status' = [kind |-> "error",
                                                text |-> <<"Indexing error: ", "vector store">>]

IngestInit ==
    /\ ChunkIdle
    /\ AppIdle
    /\ ChainIdle
    /\ GuardIdle
    /\ PyPDF2 \in BOOLEAN
    /\ docx \in BOOLEAN
    /\ batch \in Batches(MaxBatch)
    /\ uploads = {}
    /\ vs = <<>>
    /\ status = [kind |-> "none"]
    /\ ingested = [kind |-> "none"]
    /\ ipc = "call"

\* the upload handler runs index_files on the batch
IndexFilesCall ==
    /\ ipc = "call"
    /\ IndexFilesDo(batch)
    /\ ipc' = "done"
    /\ UNCHANGED <<PyPDF2, docx, batch, ingested>>
    /\ UNCHANGED <<chunkVars, appVars, chainVars, guardVars>>

\* ingest is called with the batch's files as its paths
IngestCall ==
    /\ ipc = "call"
    /\ LET r == ingest([i \in 1..Len(batch) |-> PathOf(batch[i], 0)])
       IN  ingested' = [kind |-> IF r.exc = "none" THEN "returned" ELSE "raised",
                        exc |-> r.exc, chunks |-> r.value, msg |-> r.msg]
    /\ ipc' = "done"
    /\ UNCHANGED <<PyPDF2, docx, batch, uploads, vs, status>>
    /\ UNCHANGED <<chunkVars, appVars, chainVars, guardVars>>

IngestNext == IndexFilesCall \/ IngestCall

SpecIngest == IngestInit /\ [][IngestNext]_vars
\* ------------------------------------------------- claims on ingestion
ChunkIdsDistinct(chunks) ==
    \A i, j \in 1..Len(chunks) :
        i # j => chunks[i].metadata.chunk_id # chunks[j].metadata.chunk_id

\* C1: no two chunks returned by one ingest(paths) call carry the same
\* chunk_id, whatever the number of files in the batch.
C1_BatchChunkIdsUnique ==
    ingested.kind = "returned" => ChunkIdsDistinct(ingested.chunks)

Unsupported(f) == lower(f.ext) \notin SUPPORTED_EXTENSIONS

MissingLibrary(f) ==
    \/ lower(f.ext) = ".pdf" /\ ~PyPDF2
    \/ lower(f.ext) = ".docx" /\ ~docx

MissingLibraryText(f) ==
    IF lower(f.ext) = ".pdf"
    THEN <<"PyPDF2 not installed. Install it to parse PDFs.">>
    ELSE <<"python-docx not installed. Install it to parse DOCX.">>

FirstOf(P(_)) ==
    CHOOSE k \in 1..Len(batch) : P(batch[k]) /\ \A j \in 1..(k - 1) : ~P(batch[j])

\* C8: when parsing a file of the batch fails, ingest returns no chunk,
\* index_files adds nothing to the vector index, and the status text (the
\* raised message for ingest) carries the error of the first failing file,
\* naming the extension of an unsupported one.
C8_BatchAllOrNothing ==
    /\ ( /\ ipc = "done"
         /\ status.kind # "none"
         /\ \E i \in 1..Len(batch) : ~Unsupported(batch[i]) /\ MissingLibrary(batch[i]) )
       => /\ vs = <<>>
          /\ status.kind = "error"
          /\ status.text = MissingLibraryText(batch[FirstOf(MissingLibrary)])
    /\ ( /\ ipc = "done"
         /\ ingested.kind # "none"
         /\ \E i \in 1..Len(batch) : Unsupported(batch[i]) \/ MissingLibrary(batch[i]) )
       => LET Fails(f) == Unsupported(f) \/ MissingLibrary(f)
              f == batch[FirstOf(Fails)]
          IN  /\ ingested.kind = "raised"
              /\ ingested.chunks = <<>>
              /\ ingested.msg = IF Unsupported(f)
                                THEN <<"Unsupported file type: ", lower(f.ext)>>
                                ELSE MissingLibraryText(f)

\* index_files on a text file followed by a PDF, with PyPDF2 missing
C8_Witness ==
    /\ ipc = "done"
    /\ status.kind = "error"
    /\ Len(batch) = 2
    /\ batch[1] = FileTxtLong
    /\ batch[2] = FilePdf
    /\ ~PyPDF2
    /\ vs = <<>>

\* ------------------------------------------------ a chain run on its own
DocPlain ==
    [page_content |-> <<"a", ".">>,
     metadata |-> [source |-> <<"a", ".txt">>, page |-> NoPage,
                   title |-> NoTitle, chunk_id |-> <<"chunk_", "1">>]]

DocPaged ==
    [page_content |-> <<"a">>,
     metadata |-> [source |-> <<"c", ".pdf">>, page |-> 1,
                   title |-> NoTitle, chunk_id |-> <<"chunk_", "1">>]]

\* a document of the collection whose text is whitespace only
DocBlank ==
    [page_content |-> <<" ">>,
     metadata |-> [source |-> <<"b", ".txt">>, page |-> NoPage,
                   title |-> NoTitle, chunk_id |-> <<"chunk_", "1">>]]

\* another chunk text under the metadata of DocPlain
DocSameTag ==
    [page_content |-> <<"a", " ", "a">>, metadata |-> DocPlain.metadata]

\* a document whose metadata has neither source nor chunk_id nor page
DocUntagged ==
    [page_content |-> <<"a">>, metadata |-> [title |-> <<"t">>]]

Documents == {DocPlain, DocPaged, DocBlank, DocSameTag, DocUntagged}

RECURSIVE DocLists(_)
DocLists(n) ==
    IF n = 0 THEN {<<>>}
    ELSE DocLists(n - 1) \cup
         { Append(l, d) : l \in { x \in DocLists(n - 1) : Len(x) = n - 1 },
                          d \in Documents }

QuestionLaw == <<"g", "o", "v", "e", "r", "n", "i", "n", "g", " ", "l", "a", "w">>

ChainInit ==
    /\ ChunkIdle
    /\ IngestIdle
    /\ AppIdle
    /\ GuardIdle
    /\ retrievable \in DocLists(MaxDocs)
    /\ asked \in {<<>>, QuestionLaw}
    /\ composed = [chain |-> "none"]
    /\ kpc = "call"

\* qa_chain.stream({"question": asked}) up to the call of the model
ComposeAnswer ==
    /\ kpc = "call"
    /\ composed' = [chain |-> "qa", run |-> QaChainRun(asked, retrievable)]
    /\ kpc' = "done"
    /\ UNCHANGED <<retrievable, asked>>
    /\ UNCHANGED <<chunkVars, ingestVars, appVars, guardVars>>

\* summary_chain.stream({}) up to the call of the model
ComposeSummary ==
    /\ kpc = "call"
    /\ composed' = [chain |-> "summary", run |-> SummaryChainRun(retrievable)]
    /\ kpc' = "done"
    /\ UNCHANGED <<retrievable, asked>>
    /\ UNCHANGED <<chunkVars, ingestVars, appVars, guardVars>>

\* join_citations(metadatas) on the metadata of the documents
JoinCitations ==
    /\ kpc = "call"
    /\ composed' = [chain |-> "join",
                    run |-> [citations |->
                        join_citations([i \in 1..Len(retrievable) |->
                                            retrievable[i].metadata])]]
    /\ kpc' = "done"
    /\ UNCHANGED <<retrievable, asked>>
    /\ UNCHANGED <<chunkVars, ingestVars, appVars, guardVars>>

ChainNext == ComposeAnswer \/ ComposeSummary \/ JoinCitations

SpecChain == ChainInit /\ [][ChainNext]_vars

\* --------------------------------------------- claims on the chain runs
\* C6: in the summary chain, when the joined context or the citation string
\* is empty after trimming, the prompt gets an empty context and empty
\* citations; with no retrieved document the prompt has no citation, and
\* the citations are non-empty only when the context is.
C6_SummaryPromptGrounded ==
    composed.chain = "summary" =>
        LET r    == composed.run
            ctx  == format_docs(r.docs)
            cits == citations_from_docs(r.docs)
        IN  /\ Len(r.docs) = Len(retrievable)
            /\ (strip(ctx) = <<>> \/ strip(cits) = <<>>) =>
                   r.prompt.context = <<>> /\ r.prompt.citations = <<>>
            /\ retrievable = <<>> => r.prompt.citations = <<>>
            /\ r.prompt.citations # <<>> => strip(r.prompt.context) # <<>>

\* the retriever returns documents, all of them whitespace only: there are
\* tags to cite but no context, and the prompt gets neither
C6_Witness ==
    /\ composed.chain = "summary"
    /\ retrievable # <<>>
    /\ citations_from_docs(composed.run.docs) # <<>>
    /\ composed.run.prompt.citations = <<>>
    /\ composed.run.prompt.context = <<>>

\* the tags of the documents, in their order
TagsOf(docs) == [i \in 1..Len(docs) |-> format_citation(docs[i].metadata)]

\* the positions of tags that hold a tag for the first time
FirstPositions(tags) ==
    { i \in 1..Len(tags) : \A j \in 1..(i - 1) : tags[j] # tags[i] }

\* the distinct tags, each once, in the order of their first occurrence
FirstOccurrences(tags) ==
    LET firsts == FirstPositions(tags)
    IN  [k \in 1..Cardinality(firsts) |->
            tags[CHOOSE i \in firsts :
                     Cardinality({ j \in firsts : j < i }) = k - 1]]

\* C14: join_citations, and _citations_from_docs on the same metadata, both
\* return the distinct formatted tags joined by single spaces, each tag
\* once, in the order of first occurrence, for any number of documents
\* (none included).
C14_CitationsDeduplicated ==
    /\ composed.chain = "join" =>
          /\ composed.run.citations =
                 JoinSpace(FirstOccurrences(TagsOf(retrievable)), 1)
          /\ composed.run.citations = citations_from_docs(retrievable)
    /\ composed.chain = "qa" =>
          /\ composed.run.prompt.citations =
                 JoinSpace(FirstOccurrences(TagsOf(composed.run.docs)), 1)
          /\ composed.run.prompt.citations =
                 join_citations([i \in 1..Len(composed.run.docs) |->
                                     composed.run.docs[i].metadata])

\* three documents, the first and the last with the same tag: two tags
C14_Witness ==
    /\ composed.chain = "join"
    /\ Len(retrievable) = 3
    /\ retrievable[1].metadata = retrievable[3].metadata
    /\ retrievable[2].metadata # retrievable[1].metadata
    /\ composed.run.citations =
           format_citation(retrievable[1].metadata) \o <<" ">>
               \o format_citation(retrievable[2].metadata)

\* ------------------------------------------------------- app.py: actions
\* the batches uploaded while the assistant runs
AppBatches == { <<FileTxtShort>>, <<FileExe>> }

AppInit ==
    /\ ChunkIdle
    /\ ChainIdle
    /\ GuardIdle
    /\ PyPDF2 = TRUE
    /\ docx = TRUE
    /\ batch = <<>>
    /\ uploads = {}
    /\ vs = <<>>
    /\ status = [kind |-> "none"]
    /\ ingested = [kind |-> "none"]
    /\ ipc = "idle"
    /\ qa_chain = NoChain
    /\ summary_chain = NoChain
    /\ indexings = 0
    /\ apc = "idle"
    /\ req = NoRequest

\* on_index: index_files(files)
IndexFiles ==
    /\ apc = "idle"
    /\ Cardinality(uploads) < MaxUploads
    /\ \E b \in AppBatches :
          /\ IndexFilesDo(b)
          /\ batch' = b
    /\ indexings' = IF status'.kind = "indexed" THEN indexings + 1 ELSE indexings
    /\ UNCHANGED <<PyPDF2, docx, ingested, ipc>>
    /\ UNCHANGED <<qa_chain, summary_chain, apc, req>>
    /\ UNCHANGED <<chunkVars, chainVars, guardVars>>

\* ensure_chains(), build_qa_chain() ending as o1 and build_summary_chain()
\* as o2 when they are called: the handles afterwards and the exception
\* that leaves ensure_chains ("none": it returned)
EnsureChains(o1, o2) ==
    IF ~qa_chain.set /\ o1 # "ok"
    THEN [qa |-> qa_chain, summary |-> summary_chain, exc |-> o1]
    ELSE LET qa == IF qa_chain.set THEN qa_chain ELSE Chain(indexings)
         IN  IF ~summary_chain.set /\ o2 # "ok"
             THEN [qa |-> qa, summary |-> summary_chain, exc |-> o2]
             ELSE [qa |-> qa,
                   summary |-> IF summary_chain.set THEN summary_chain
                               ELSE Chain(indexings),
                   exc |-> "none"]

\* the ways a builder can end when ensure_chains calls it (it is not called
\* for a handle that is set)
OutcomesFor(chain) == IF chain.set THEN {"ok"} ELSE BuildOutcomes

\* str(e) of the RuntimeError the builders raise
BuildErrorText == "langchain-nvidia-ai-endpoints is not installed. Please install it from requirements.txt."

\* the canned response of a short cut
Canned(branch) ==
    CASE branch = "greeting" -> "Hello! I'm your Smart Contract Assistant."
      [] branch = "how_are_you" -> "I'm doing well, thank you!"
      [] branch = "meta" -> "I'm a Smart Contract Assistant powered by RAG."
      [] branch = "thanks" -> "You're welcome!"
      [] branch = "off_topic" -> "I'm focused on helping with contract document analysis."

NoIndexText == "I don't have any documents indexed yet. Please upload and index documents first using the sidebar, then I can answer questions about them."

\* stream_answer(question, history) up to its first yield, or to its end
\* when that comes first
Ask ==
    /\ apc = "idle"
    /\ \E q \in { Questions[i] : i \in 1..Len(Questions) } :
        \E branch \in {Classify(q)} :
          LET r0 == [NoRequest EXCEPT !.kind = "ask", !.q = q]
          IN  IF branch # "document"
              THEN /\ req' = [r0 EXCEPT !.branch = branch,
                                        !.content = <<Canned(branch)>>,
                                        !.yields = << <<Canned(branch)>> >>]
                   /\ apc' = "idle"
                   /\ UNCHANGED <<qa_chain, summary_chain>>
              ELSE \E o1 \in OutcomesFor(qa_chain), o2 \in OutcomesFor(summary_chain) :
                   \E e \in {EnsureChains(o1, o2)} :
                     LET r1 == [r0 EXCEPT !.ensured = TRUE]
                     IN  /\ qa_chain' = e.qa
                         /\ summary_chain' = e.summary
                         /\ CASE e.exc = "RuntimeError" ->
                                   /\ req' = [r1 EXCEPT !.branch = "build_error",
                                                        !.content = <<BuildErrorText>>,
                                                        !.yields = << <<BuildErrorText>> >>]
                                   /\ apc' = "idle"
                              [] e.exc = "Exception" ->
                                   /\ req' = [r1 EXCEPT !.branch = "build_error",
                                                        !.escaped = TRUE]
                                   /\ apc' = "idle"
                              [] e.exc = "none" /\ ~e.qa.set ->
                                   /\ req' = [r1 EXCEPT !.branch = "no_index",
                                                        !.content = <<NoIndexText>>,
                                                        !.yields = << <<NoIndexText>> >>]
                                   /\ apc' = "idle"
                              [] e.exc = "none" /\ e.qa.set ->
                                   /\ req' = [r1 EXCEPT !.branch = "generating",
                                                        !.handle = e.qa,
                                                        !.yields = << <<>> >>]
                                   /\ apc' = "answering"
    /\ UNCHANGED indexings
    /\ UNCHANGED <<chunkVars, ingestVars, chainVars, guardVars>>

\* qa_chain.stream(...): retrieval, reordering, the prompt, and the call of
\* the language model
AnswerCompose ==
    /\ apc = "answering"
    /\ \E run \in {QaChainRun(req.q, Retrieve(vs))} :
           req' = [req EXCEPT !.retrievals = run.retrievals,
                              !.ndocs = Len(run.docs),
                              !.prompt = run.prompt,
                              !.llm_calls = run.llm_calls]
    /\ apc' = "generating"
    /\ UNCHANGED <<qa_chain, summary_chain, indexings>>
    /\ UNCHANGED <<chunkVars, ingestVars, chainVars, guardVars>>

\* one streamed chunk: history[-1]["content"] += part; yield
AnswerToken ==
    /\ apc = "generating"
    /\ Len(req.content) < MaxTokens
    /\ LET c == Append(req.content, "token")
       IN  req' = [req EXCEPT !.content = c, !.yields = Append(@, c)]
    /\ UNCHANGED <<qa_chain, summary_chain, indexings, apc>>
    /\ UNCHANGED <<chunkVars, ingestVars, chainVars, guardVars>>

\* the stream ends
AnswerDone ==
    /\ apc = "generating"
    /\ req' = [req EXCEPT !.branch = "done"]
    /\ apc' = "idle"
    /\ UNCHANGED <<qa_chain, summary_chain, indexings>>
    /\ UNCHANGED <<chunkVars, ingestVars, chainVars, guardVars>>

\* the retriever raises
AnswerRetrievalFails ==
    /\ apc = "answering"
    /\ req.q # <<>>
    /\ req' = [req EXCEPT !.branch = "answer_error",
                          !.retrievals = 1,
                          !.content = <<"Answer error: retriever">>,
                          !.yields = Append(@, <<"Answer error: retriever">>)]
    /\ apc' = "idle"
    /\ UNCHANGED <<qa_chain, summary_chain, indexings>>
    /\ UNCHANGED <<chunkVars, ingestVars, chainVars, guardVars>>

\* the language model raises: history[-1]["content"] = f"Answer error: {e}"
AnswerGenerationFails ==
    /\ apc = "generating"
    /\ req' = [req EXCEPT !.branch = "answer_error",
                          !.content = <<"Answer error: model">>,
                          !.yields = Append(@, <<"Answer error: model">>)]
    /\ apc' = "idle"
    /\ UNCHANGED <<qa_chain, summary_chain, indexings>>
    /\ UNCHANGED <<chunkVars, ingestVars, chainVars, guardVars>>

NoSummaryChainText == "Summary chain is not available. Please index documents first."

\* stream_summary() up to its first yield, or to its end
SummaryStart ==
    /\ apc = "idle"
    /\ \E o1 \in OutcomesFor(qa_chain), o2 \in OutcomesFor(summary_chain) :
        \E e \in {EnsureChains(o1, o2)} :
          LET r1 == [NoRequest EXCEPT !.kind = "summary", !.ensured = TRUE]
          IN  /\ qa_chain' = e.qa
              /\ summary_chain' = e.summary
              /\ CASE e.exc = "RuntimeError" ->
                        /\ req' = [r1 EXCEPT !.branch = "build_error",
                                             !.yields = <<BuildErrorText>>]
                        /\ apc' = "idle"
                   [] e.exc = "Exception" ->
                        /\ req' = [r1 EXCEPT !.branch = "build_error",
                                             !.escaped = TRUE]
                        /\ apc' = "idle"
                   [] e.exc = "none" /\ ~e.summary.set ->
                        /\ req' = [r1 EXCEPT !.branch = "no_index",
                                             !.yields = <<NoSummaryChainText>>]
                        /\ apc' = "idle"
                   [] e.exc = "none" /\ e.summary.set ->
                        /\ req' = [r1 EXCEPT !.branch = "generating",
                                             !.handle = e.summary,
                                             !.yields = <<"Summarizing documents...">>]
                        /\ apc' = "summarizing"
    /\ UNCHANGED indexings
    /\ UNCHANGED <<chunkVars, ingestVars, chainVars, guardVars>>

\* summary_chain.stream({}): retrieval, reordering, grounded_or_idk, the
\* prompt, and the call of the language model
SummaryCompose ==
    /\ apc = "summarizing"
    /\ \E run \in {SummaryChainRun(Retrieve(vs))} :
           req' = [req EXCEPT !.retrievals = run.retrievals,
                              !.ndocs = Len(run.docs),
                              !.prompt = run.prompt,
                              !.llm_calls = run.llm_calls]
    /\ apc' = "summary_generating"
    /\ UNCHANGED <<qa_chain, summary_chain, indexings>>
    /\ UNCHANGED <<chunkVars, ingestVars, chainVars, guardVars>>

\* one streamed chunk is yielded as it comes
SummaryToken ==
    /\ apc = "summary_generating"
    /\ Len(req.content) < MaxTokens
    /\ req' = [req EXCEPT !.content = Append(@, "token"),
                          !.yields = Append(@, "token")]
    /\ UNCHANGED <<qa_chain, summary_chain, indexings, apc>>
    /\ UNCHANGED <<chunkVars, ingestVars, chainVars, guardVars>>

\* the stream ends: yield "\n\nDone."
SummaryDone ==
    /\ apc = "summary_generating"
    /\ req' = [req EXCEPT !.branch = "done", !.yields = Append(@, "\n\nDone.")]
    /\ apc' = "idle"
    /\ UNCHANGED <<qa_chain, summary_chain, indexings>>
    /\ UNCHANGED <<chunkVars, ingestVars, chainVars, guardVars>>

\* the retriever or the language model raises: yield f"Summary error: {e}"
SummaryFails ==
    /\ apc \in {"summarizing", "summary_generating"}
    /\ req' = [req EXCEPT !.branch = "summary_error",
                          !.retrievals = 1,
                          !.yields = Append(@, "Summary error: e")]
    /\ apc' = "idle"
    /\ UNCHANGED <<qa_chain, summary_chain, indexings>>
    /\ UNCHANGED <<chunkVars, ingestVars, chainVars, guardVars>>

\* summarize_sync(): the whole call; the stream gives n chunks and then
\* ends, or raises when fails holds (with n = 0, possibly in the retriever)
SummarizeSync ==
    /\ apc = "idle"
    /\ \E run \in {SummaryChainRun(Retrieve(vs))} :
        \E o1 \in OutcomesFor(qa_chain), o2 \in OutcomesFor(summary_chain),
           n \in 0..MaxTokens, fails \in BOOLEAN :
        \E e \in {EnsureChains(o1, o2)} :
          LET r1   == [NoRequest EXCEPT !.kind = "sync", !.ensured = TRUE]
              toks == [i \in 1..n |-> "token"]
          IN  /\ qa_chain' = e.qa
              /\ summary_chain' = e.summary
              /\ CASE e.exc = "RuntimeError" ->
                        req' = [r1 EXCEPT !.branch = "build_error",
                                          !.yields = <<BuildErrorText>>]
                   [] e.exc = "Exception" ->
                        req' = [r1 EXCEPT !.branch = "build_error",
                                          !.escaped = TRUE]
                   [] e.exc = "none" /\ ~e.summary.set ->
                        req' = [r1 EXCEPT !.branch = "no_index",
                                          !.yields = <<NoSummaryChainText>>]
                   [] e.exc = "none" /\ e.summary.set ->
                        req' = [r1 EXCEPT
                                  !.branch = IF fails THEN "summary_error" ELSE "done",
                                  !.handle = e.summary,
                                  !.retrievals = run.retrievals,
                                  !.ndocs = Len(run.docs),
                                  !.prompt = run.prompt,
                                  !.llm_calls = run.llm_calls,
                                  !.content = toks,
                                  !.yields =
                                      << <<"Summarizing documents...\n">> \o toks \o
                                         (IF fails THEN <<"\n\nSummary error: e">>
                                          ELSE <<"\n\nDone.">>) >>]
    /\ UNCHANGED <<indexings, apc>>
    /\ UNCHANGED <<chunkVars, ingestVars, chainVars, guardVars>>

AppNext ==
    \/ IndexFiles
    \/ Ask
    \/ AnswerCompose
    \/ AnswerToken
    \/ AnswerDone
    \/ AnswerRetrievalFails
    \/ AnswerGenerationFails
    \/ SummaryStart
    \/ SummaryCompose
    \/ SummaryToken
    \/ SummaryDone
    \/ SummaryFails
    \/ SummarizeSync

SpecApp == AppInit /\ [][AppNext]_vars

\* ---------------------------------------------- claims on the requests
\* the question is a greeting, a meta question or thanks for stream_answer
IsGreetingOrMeta(q) ==
    LET q_lower == strip(lower_str(q))
    IN  \/ AnyIn(AnswerGreetings, q_lower)
        \/ AnyIn(HowAreYou, q_lower)
        \/ AnyIn(MetaPhrases, q_lower)
        \/ AnyIn(ThanksPhrases, q_lower)

\* C2: a question that is neither greeting/meta nor off-topic, asked before
\* anything was indexed, ends in NoIndex: the fixed refusal, no retrieval,
\* no call of the language model, no exception (stated here for the
\* requests whose pipelines build without an error).
C2_AskBeforeIndexingIsNoIndex ==
    ( /\ req.kind = "ask"
      /\ ~IsGreetingOrMeta(req.q)
      /\ ~guard_unrelated(req.q)
      /\ strip(req.q) # <<>>
      /\ indexings = 0
      /\ vs = <<>>
      /\ req.branch # "build_error" )
    => /\ req.branch = "no_index"
       /\ req.yields = << <<NoIndexText>> >>
       /\ req.retrievals = 0
       /\ req.llm_calls = 0
       /\ ~req.escaped

\* C3: a question stream_answer takes for a greeting, a meta question or
\* thanks, or guard_unrelated takes for off-topic, gets exactly one canned
\* response and the request ends without ensure_chains, without a retrieval
\* and without a call of the language model.
C3_ShortCutsTouchNoPipeline ==
    ( /\ req.kind = "ask"
      /\ IsGreetingOrMeta(req.q) \/ guard_unrelated(req.q) )
    => /\ apc = "idle"
       /\ req.branch \in {"greeting", "how_are_you", "meta", "thanks", "off_topic"}
       /\ Len(req.yields) = 1
       /\ req.yields[1] = <<Canned(req.branch)>>
       /\ ~req.ensured
       /\ req.retrievals = 0
       /\ req.llm_calls = 0
       /\ ~req.escaped

\* an off-topic question asked while the answer pipeline is built and the
\* index holds chunks
C3_Witness ==
    /\ req.kind = "ask"
    /\ guard_unrelated(req.q)
    /\ req.branch = "off_topic"
    /\ qa_chain.set
    /\ vs # <<>>

\* C4: no failure of ask or summarize escapes as an unhandled exception: a
\* request that failed while the pipelines were built or while it generated
\* ended normally, its last output an error text.
C4_NoFailureEscapes ==
    req.branch \in {"build_error", "answer_error", "summary_error"} =>
        /\ ~req.escaped
        /\ req.yields # <<>>

\* C5: when retrieval gave no document the pipelines do not call the
\* language model.
C5_NoModelCallWithoutDocuments ==
    req.llm_calls > 0 => req.ndocs > 0

\* C7: a request never runs on a pipeline handle built before the last
\* change of the index.
C7_HandleBuiltAfterLastIndexing ==
    (apc # "idle" /\ req.handle.set) => req.handle.built = indexings

\* a is a prefix of b
IsPrefix(a, b) == Len(a) <= Len(b) /\ SubSeq(b, 1, Len(a)) = a

\* C12: from the first yield of the generating state on, every content
\* stream_answer yields is the content yielded before plus one increment;
\* this includes the yield after a failed generation, which keeps the text
\* already streamed.
C12_AnswerBufferOnlyGrows ==
    (req.kind = "ask" /\ req.branch \in {"generating", "done", "answer_error"}) =>
        \A i \in 1..(Len(req.yields) - 1) :
            /\ IsPrefix(req.yields[i], req.yields[i + 1])
            /\ Len(req.yields[i + 1]) = Len(req.yields[i]) + 1

\* the handle is as it was, or it is still None
KeptOrUnset(before, after) == after = before \/ ~after.set

\* C13: a request that fails leaves the cached handles as they were or still
\* unset, so that the next request finds the state it would have found
\* without the failed one: a failed ensure_chains leaves each handle
\* unchanged or unset, and a failure while streaming changes no handle (in
\* summarize_sync, the handle it streamed from is the cached one).
C13_FailureKeepsHandles ==
    [][ ( /\ req'.branch \in {"build_error", "answer_error", "summary_error"}
          /\ <<req, qa_chain, summary_chain>>' # <<req, qa_chain, summary_chain>> )
        => /\ req'.branch = "build_error" =>
                  /\ KeptOrUnset(qa_chain, qa_chain')
                  /\ KeptOrUnset(summary_chain, summary_chain')
           /\ (req'.branch # "build_error" /\ apc # "idle") =>
                  UNCHANGED <<qa_chain, summary_chain>>
           /\ (req'.branch # "build_error" /\ apc = "idle") =>
                  summary_chain' = req'.handle ]_vars

\* C17: the two pipelines are independent: a document question asked while
\* qa_chain is built is not stopped by a failure to build the summary
\* pipeline, and a summary requested while summary_chain is built is not
\* stopped by a failure to build the answer pipeline.
C17_PipelinesIndependent ==
    [][ (apc = "idle" /\ req' # req /\ req'.ensured) =>
            /\ (req'.kind = "ask" /\ strip(req'.q) # <<>> /\ qa_chain.set) =>
                   req'.branch # "build_error"
            /\ (req'.kind \in {"summary", "sync"} /\ summary_chain.set) =>
                   req'.branch # "build_error" ]_vars

\* one of the phrases occurs in s as whole words
SaysPhrase(s) ==
    \/ SearchWords(AnswerGreetings, s)
    \/ SearchWords(HowAreYou, s)
    \/ SearchWords(MetaPhrases, s)
    \/ SearchWords(ThanksPhrases, s)

\* C18: stream_answer gives a canned greeting, meta or thanks response only
\* to a question that says a greeting, a meta phrase or thanks; a question
\* that has such a token only inside another word is not short-circuited.
C18_OnlyGreetingsShortCircuit ==
    (req.kind = "ask" /\ req.branch \in {"greeting", "how_are_you", "meta", "thanks"})
        => SaysPhrase(strip(lower_str(req.q)))

\* ------------------------------------------ guard_unrelated on its own
\* the pieces the questions are made of
GuardPieces ==
    { <<"H", "i">>,
      <<"w", "e", "a", "t", "h", "e", "r">>,
      <<"m", "o", "v", "i", "e">>,
      <<"t", "e", "l", "l">>,
      <<"j", "o", "k", "e">>,
      <<"h", "e", "l", "p">>,
      <<"s">>, <<"x">>, <<" ">>, <<"\n">> }

RECURSIVE GuardQuestions(_)
GuardQuestions(n) ==
    IF n = 0 THEN {<<>>}
    ELSE GuardQuestions(n - 1) \cup
         { s \o w : s \in GuardQuestions(n - 1), w \in GuardPieces }

GuardInit ==
    /\ ChunkIdle
    /\ IngestIdle
    /\ AppIdle
    /\ ChainIdle
    /\ guardQuestion \in GuardQuestions(MaxWords)
    /\ blocked = FALSE
    /\ gpc = "call"

GuardCall ==
    /\ gpc = "call"
    /\ blocked' = guard_unrelated(guardQuestion)
    /\ gpc' = "done"
    /\ UNCHANGED guardQuestion
    /\ UNCHANGED <<chunkVars, ingestVars, appVars, chainVars>>

GuardNext == GuardCall

SpecGuard == GuardInit /\ [][GuardNext]_vars

\* q contains one of the allow-listed greetings or meta phrases
AllowListed(q) == AnyIn(GuardGreetings, q) \/ AnyIn(MetaPhrases, q)

\* C11: guard_unrelated returns true exactly when the question (lowercased,
\* trimmed) matches at least one blocked pattern and contains no allow-listed
\* greeting or meta phrase; a question containing an allow-listed phrase is
\* never blocked, whatever blocked patterns it also matches.
C11_AllowListPrecedence ==
    gpc = "done" =>
        LET q == strip(lower_str(guardQuestion))
        IN  /\ blocked <=> (MatchesUnrelated(q) /\ ~AllowListed(q))
            /\ AllowListed(q) => ~blocked

\* a question with a greeting and a blocked topic was let through
C11_Witness ==
    /\ gpc = "done"
    /\ MatchesUnrelated(strip(lower_str(guardQuestion)))
    /\ AnyIn(GuardGreetings, strip(lower_str(guardQuestion)))
    /\ ~blocked

====
